---- MODULE Spec2Model ----
(***************************************************************************)
(* A model of the Introjucer source-code editor                            *)
(* (extras/Introjucer/Source/Code Editor/jucer_SourceCodeEditor.cpp):      *)
(*   - SourceCodeDocument: the file-backed document (lazy load, reload,    *)
(*     save, saveAs) together with the CodeDocument buffer it owns;        *)
(*   - GenericCodeEditorComponent: the selection, the find panel, the      *)
(*     stored search settings and findNext;                                *)
(*   - CppCodeEditorComponent::handleReturnKey: auto-indentation.          *)
(* Text is a sequence of one-character strings; NL stands for the          *)
(* document's new-line sequence and ends a line.                           *)
(***************************************************************************)
EXTENDS Integers, Sequences, FiniteSets, TLC

VARIABLES
    disk,           \* file name -> content of the file on disk
    codeDoc,        \* SourceCodeDocument::codeDoc (ScopedPointer<CodeDocument>)
    modDetector,    \* SourceCodeDocument::modDetector (fingerprint of the file)
    lazyLoads,      \* how often getCodeDocument() loaded the buffer (history)
    selStart,       \* CodeEditorComponent selection start (character offset)
    selEnd,         \* CodeEditorComponent selection end; the caret when empty
    searchString,   \* stored search term (getSearchString / setSearchString)
    caseSensitive,  \* stored flag (isCaseSensitiveSearch / setCaseSensitiveSearch)
    findPanel,      \* GenericCodeEditorComponent::findPanel
    found,          \* whether the last findNext selected a match (history)
    linesRead,      \* line indices the last findNext passed to getLine (history)
    modByZero,      \* whether the last findNext took a remainder by zero (history)
    blockIndent,    \* handleReturnKey's local blockIndent, as last computed
    lastLineIndent, \* handleReturnKey's local lastLineIndent, as last computed
    returns,        \* Return key presses handled so far (history)
    lastOp          \* the operation that produced this state, with its inputs and result

docVars == <<disk, codeDoc, modDetector, lazyLoads>>
selVars == <<selStart, selEnd>>
findVars == <<searchString, caseSensitive, findPanel, found, linesRead, modByZero>>
retVars == <<blockIndent, lastLineIndent, returns>>
vars == <<docVars, selVars, findVars, retVars, lastOp>>

----------------------------------------------------------------------------
(* Bounds of the model.                                                    *)

MaxLen == 2           \* longest text of a file or of the buffer (document model)
MaxActionIndex == 2   \* cap on CodeDocument::currentActionIndex
MaxUndo == 1          \* undo transactions kept
MaxDocLen == 3        \* longest document of the search model
MaxTermLen == 2       \* longest search term
PanelDocLen == 1      \* longest document of the find-panel model
MaxIndent == 2        \* longest indent returned by getIndentForCurrentBlock
MaxReturns == 1       \* Return key presses per behaviour

NL == "\n"

Min(a, b) == IF a < b THEN a ELSE b
Max(a, b) == IF a < b THEN b ELSE a

\* All sequences over S of length at most n.
SeqsUpTo(S, n) == UNION {[1..k -> S] : k \in 0..n}

----------------------------------------------------------------------------
(* juce::CodeDocument, as far as this file uses it.                        *)

\* CodeDocumentLine::createLines: a line ends after its new-line; a text
\* ending in a new-line is followed by an empty last line; no text, no lines.
RECURSIVE SplitFrom(_, _)
SplitFrom(t, cur) ==
    IF t = <<>> THEN <<cur>>
    ELSE IF Head(t) = NL THEN <<Append(cur, NL)>> \o SplitFrom(Tail(t), <<>>)
    ELSE SplitFrom(Tail(t), Append(cur, Head(t)))

Lines(t) == IF t = <<>> THEN <<>> ELSE SplitFrom(t, <<>>)

RECURSIVE Flatten(_)
Flatten(ls) == IF ls = <<>> THEN <<>> ELSE Head(ls) \o Flatten(Tail(ls))

NullDoc ==
    [allocated |-> FALSE, text |-> <<>>, undo |-> <<>>,
     currentActionIndex |-> 0, indexOfSavedState |-> -1]

\* CodeDocument::CodeDocument(): currentActionIndex (0), indexOfSavedState (-1).
NewCodeDocument == [NullDoc EXCEPT !.allocated = TRUE]

setSavePoint(cd) == [cd EXCEPT !.indexOfSavedState = cd.currentActionIndex]

hasChangedSinceSavePoint(cd) == cd.currentActionIndex # cd.indexOfSavedState

clearUndoHistory(cd) == [cd EXCEPT !.undo = <<>>]

\* UndoManager keeps a bounded number of transactions, dropping the oldest.
PushUndo(undo, entry) ==
    LET u == Append(undo, entry)
    IN  IF Len(u) > MaxUndo THEN Tail(u) ELSE u

\* One undoable transaction of n insert/delete actions turning the text into t.
Perform(cd, t, n) ==
    [cd EXCEPT !.text = t,
               !.undo = PushUndo(cd.undo, [text |-> cd.text, n |-> n]),
               !.currentActionIndex = cd.currentActionIndex + n]

RECURSIVE CommonPrefix(_, _)
CommonPrefix(a, b) ==
    IF a = <<>> \/ b = <<>> \/ Head(a) # Head(b) THEN 0
    ELSE 1 + CommonPrefix(Tail(a), Tail(b))

Reverse(s) == [i \in 1..Len(s) |-> s[Len(s) + 1 - i]]

\* The number of insert/delete actions CodeDocument::applyChanges performs:
\* the differing middle of the old text is deleted, that of the new inserted.
NumChanges(old, new) ==
    LET p == CommonPrefix(old, new)
        s == CommonPrefix(Reverse(SubSeq(old, p + 1, Len(old))),
                          Reverse(SubSeq(new, p + 1, Len(new))))
    IN  (IF Len(old) - p - s > 0 THEN 1 ELSE 0) + (IF Len(new) - p - s > 0 THEN 1 ELSE 0)

applyChanges(cd, newContent) ==
    IF cd.text = newContent THEN cd
    ELSE Perform(cd, newContent, NumChanges(cd.text, newContent))

\* CodeDocument::writeToStream writes the lines one after the other.
writeToStream(cd) == Flatten(Lines(cd.text))

----------------------------------------------------------------------------
(* FileModificationDetector: the fingerprint of a file is its size and a   *)
(* hash of its content.                                                    *)

CharCode(c) == IF c = NL THEN 2 ELSE IF c = "a" THEN 1 ELSE 3

RECURSIVE HashFrom(_, _)
HashFrom(t, h) == IF t = <<>> THEN h ELSE HashFrom(Tail(t), (h * 31 + CharCode(Head(t))) % 61)

calculateFileHash(content) == HashFrom(content, 0)

Fingerprint(content) == [size |-> Len(content), hash |-> calculateFileHash(content)]

\* The detector before its first updateHash().
NoFingerprint == [size |-> -1, hash |-> 0]

----------------------------------------------------------------------------
(* SourceCodeDocument                                                      *)

OwnFile == "own"
OtherFile == "other"
Files == {OwnFile, OtherFile}
DocChars == {"a", NL}
Texts == SeqsUpTo(DocChars, MaxLen)

\* The document object: the fields the operations below read and write.
Self == [codeDoc |-> codeDoc, modDetector |-> modDetector, lazyLoads |-> lazyLoads]

needsSaving(self) == self.codeDoc.allocated /\ hasChangedSinceSavePoint(self.codeDoc)

\* File::loadFileAsString
loadFileAsString(dsk, file) == dsk[file]

reloadInternal(self, dsk) ==
    [self EXCEPT !.modDetector = Fingerprint(dsk[OwnFile]),
                 !.codeDoc = setSavePoint(applyChanges(self.codeDoc, loadFileAsString(dsk, OwnFile)))]

\* Mutant: the buffer is loaded again on every call.
getCodeDocumentAlwaysReloads(self, dsk) ==
    LET s0 == IF self.codeDoc.allocated THEN self ELSE [self EXCEPT !.codeDoc = NewCodeDocument]
        s1 == reloadInternal(s0, dsk)
    IN  [s1 EXCEPT !.codeDoc = clearUndoHistory(s1.codeDoc),
                   !.lazyLoads = self.lazyLoads + 1]

getCodeDocument(self, dsk) ==
    IF ~self.codeDoc.allocated
    THEN LET s1 == reloadInternal([self EXCEPT !.codeDoc = NewCodeDocument], dsk)
         IN  [s1 EXCEPT !.codeDoc = clearUndoHistory(s1.codeDoc),
                        !.lazyLoads = self.lazyLoads + 1]
    ELSE self

reloadFromFile(self, dsk) == reloadInternal(getCodeDocument(self, dsk), dsk)

\* The ways a write can end: done, or failed at one of its three steps.
WriteOutcomes == {"ok", "openFailed", "writeFailed", "replaceFailed"}

writeCodeDocToFile(dsk, file, cd, outcome) ==
    IF outcome = "ok"
    THEN [ok |-> TRUE, disk |-> [dsk EXCEPT ![file] = writeToStream(cd)]]
    ELSE [ok |-> FALSE, disk |-> dsk]

\* Mutant: the fingerprint is not refreshed after a successful write.
saveKeepsStaleHash(self, dsk, outcome) ==
    LET s1 == getCodeDocument(self, dsk)
        w == writeCodeDocToFile(dsk, OwnFile, s1.codeDoc, outcome)
    IN  IF w.ok
        THEN [self |-> [s1 EXCEPT !.codeDoc = setSavePoint(s1.codeDoc)],
              disk |-> w.disk, result |-> TRUE]
        ELSE [self |-> s1, disk |-> w.disk, result |-> FALSE]

\* Mutant: the save point is set whether or not the write succeeded.
saveMarksSavedOnFailure(self, dsk, outcome) ==
    LET s1 == getCodeDocument(self, dsk)
        w == writeCodeDocToFile(dsk, OwnFile, s1.codeDoc, outcome)
    IN  [self |-> [s1 EXCEPT !.codeDoc = setSavePoint(s1.codeDoc),
                             !.modDetector = IF w.ok THEN Fingerprint(w.disk[OwnFile])
                                             ELSE s1.modDetector],
         disk |-> w.disk, result |-> w.ok]

save(self, dsk, outcome) ==
    LET s1 == getCodeDocument(self, dsk)
        w == writeCodeDocToFile(dsk, OwnFile, s1.codeDoc, outcome)
    IN  IF w.ok
        THEN [self |-> [s1 EXCEPT !.codeDoc = setSavePoint(s1.codeDoc),
                                  !.modDetector = Fingerprint(w.disk[OwnFile])],
              disk |-> w.disk, result |-> TRUE]
        ELSE [self |-> s1, disk |-> w.disk, result |-> FALSE]

\* Mutant: a successful saveAs sets the save point, as save does.
saveAsSetsSavePoint(self, dsk, choice, outcome) ==
    IF choice = "cancel"
    THEN [self |-> self, disk |-> dsk, result |-> TRUE]
    ELSE LET s1 == getCodeDocument(self, dsk)
             w == writeCodeDocToFile(dsk, choice, s1.codeDoc, outcome)
         IN  [self |-> IF w.ok THEN [s1 EXCEPT !.codeDoc = setSavePoint(s1.codeDoc)] ELSE s1,
              disk |-> w.disk, result |-> w.ok]

\* choice: "cancel", or the file picked in the chooser.
saveAs(self, dsk, choice, outcome) ==
    IF choice = "cancel"
    THEN [self |-> self, disk |-> dsk, result |-> TRUE]
    ELSE LET s1 == getCodeDocument(self, dsk)
             w == writeCodeDocToFile(dsk, choice, s1.codeDoc, outcome)
         IN  [self |-> s1, disk |-> w.disk, result |-> w.ok]

Wrote(outcome) == IF outcome = "ok" THEN "ok" ELSE "failed"

Op(name, choice, outcome, result) ==
    [op |-> name, choice |-> choice, outcome |-> outcome, result |-> result]

SetSelf(s) ==
    /\ codeDoc' = s.codeDoc
    /\ modDetector' = s.modDetector
    /\ lazyLoads' = s.lazyLoads

GetCodeDocument ==
    /\ SetSelf(getCodeDocument(Self, disk))
    /\ lastOp' = Op("getCodeDocument", "-", "-", TRUE)
    /\ UNCHANGED <<disk, selVars, findVars, retVars>>

\* createEditor builds the editor component on getCodeDocument().
CreateEditor ==
    /\ SetSelf(getCodeDocument(Self, disk))
    /\ lastOp' = Op("createEditor", "-", "-", TRUE)
    /\ UNCHANGED <<disk, selVars, findVars, retVars>>

ReloadFromFile ==
    /\ reloadFromFile(Self, disk).codeDoc.currentActionIndex <= MaxActionIndex
    /\ SetSelf(reloadFromFile(Self, disk))
    /\ lastOp' = Op("reloadFromFile", "-", "-", TRUE)
    /\ UNCHANGED <<disk, selVars, findVars, retVars>>

Save(outcome) ==
    LET r == save(Self, disk, outcome)
    IN  /\ SetSelf(r.self)
        /\ disk' = r.disk
        /\ lastOp' = Op("save", OwnFile, Wrote(outcome), r.result)
        /\ UNCHANGED <<selVars, findVars, retVars>>

SaveAs(choice, outcome) ==
    LET r == saveAs(Self, disk, choice, outcome)
    IN  /\ SetSelf(r.self)
        /\ disk' = r.disk
        /\ lastOp' = Op("saveAs", choice, IF choice = "cancel" THEN "-" ELSE Wrote(outcome), r.result)
        /\ UNCHANGED <<selVars, findVars, retVars>>

\* The user types or deletes one character in an editor of the document.
InsertText(pos, c) ==
    /\ codeDoc.allocated
    /\ Len(codeDoc.text) < MaxLen
    /\ codeDoc.currentActionIndex < MaxActionIndex
    /\ codeDoc' = Perform(codeDoc, SubSeq(codeDoc.text, 1, pos) \o <<c>>
                                     \o SubSeq(codeDoc.text, pos + 1, Len(codeDoc.text)), 1)
    /\ lastOp' = Op("edit", "-", "-", TRUE)
    /\ UNCHANGED <<disk, modDetector, lazyLoads, selVars, findVars, retVars>>

DeleteText(pos) ==
    /\ codeDoc.allocated
    /\ pos < Len(codeDoc.text)
    /\ codeDoc.currentActionIndex < MaxActionIndex
    /\ codeDoc' = Perform(codeDoc, SubSeq(codeDoc.text, 1, pos)
                                     \o SubSeq(codeDoc.text, pos + 2, Len(codeDoc.text)), 1)
    /\ lastOp' = Op("edit", "-", "-", TRUE)
    /\ UNCHANGED <<disk, modDetector, lazyLoads, selVars, findVars, retVars>>

\* CodeDocument::undo: the last transaction is undone, each of its actions
\* taking currentActionIndex back by one.
Undo ==
    /\ codeDoc.allocated
    /\ codeDoc.undo # <<>>
    /\ LET e == codeDoc.undo[Len(codeDoc.undo)]
       IN  codeDoc' = [codeDoc EXCEPT !.text = e.text,
                                      !.undo = SubSeq(codeDoc.undo, 1, Len(codeDoc.undo) - 1),
                                      !.currentActionIndex = codeDoc.currentActionIndex - e.n]
    /\ lastOp' = Op("undo", "-", "-", TRUE)
    /\ UNCHANGED <<disk, modDetector, lazyLoads, selVars, findVars, retVars>>

\* Another program rewrites the document's file.
ExternalWrite(content) ==
    /\ disk' = [disk EXCEPT ![OwnFile] = content]
    /\ lastOp' = Op("externalWrite", "-", "-", TRUE)
    /\ UNCHANGED <<codeDoc, modDetector, lazyLoads, selVars, findVars, retVars>>

NoPanel == [open |-> FALSE, text |-> <<>>, caseToggle |-> FALSE]

EditorIdle ==
    /\ selStart = 0
    /\ selEnd = 0
    /\ searchString = <<>>
    /\ caseSensitive = FALSE
    /\ findPanel = NoPanel
    /\ found = FALSE
    /\ linesRead = <<>>
    /\ modByZero = FALSE
    /\ blockIndent = <<>>
    /\ lastLineIndent = <<>>
    /\ returns = 0

\* After SourceCodeDocument's constructor: no buffer yet, the file as it is.
Init ==
    /\ disk \in {d \in [Files -> Texts] : d[OtherFile] = <<>>}
    /\ codeDoc = NullDoc
    /\ modDetector = NoFingerprint
    /\ lazyLoads = 0
    /\ EditorIdle
    /\ lastOp = Op("init", "-", "-", TRUE)

Next ==
    \/ GetCodeDocument
    \/ CreateEditor
    \/ ReloadFromFile
    \/ \E outcome \in WriteOutcomes : Save(outcome)
    \/ \E choice \in Files \cup {"cancel"}, outcome \in WriteOutcomes : SaveAs(choice, outcome)
    \/ \E pos \in 0..MaxLen, c \in DocChars : pos <= Len(codeDoc.text) /\ InsertText(pos, c)
    \/ \E pos \in 0..MaxLen : DeleteText(pos)
    \/ Undo
    \/ \E content \in Texts : ExternalWrite(content)

Spec == Init /\ [][Next]_vars

----------------------------------------------------------------------------
(* juce::String and CodeDocument::Position, as far as findNext uses them.  *)

Lower(c) == IF c = "A" THEN "a" ELSE c

EqChar(c, d, cs) == IF cs THEN c = d ELSE Lower(c) = Lower(d)

\* Whether term is found in line at index i (from 0).
MatchesAt(line, i, term, cs) ==
    /\ i >= 0
    /\ i + Len(term) <= Len(line)
    /\ \A k \in 1..Len(term) : EqChar(line[i + k], term[k], cs)

\* String::indexOf (startIndex, other) and indexOfIgnoreCase: the first index
\* at or after startIndex, -1 when there is none or other is empty.
indexOf(line, startIndex, term, cs) ==
    LET hits == {i \in startIndex..Len(line) : MatchesAt(line, i, term, cs)}
    IN  IF term = <<>> \/ hits = {} THEN -1
        ELSE CHOOSE i \in hits : \A j \in hits : i <= j

\* String::lastIndexOf (other) and lastIndexOfIgnoreCase: the last index, -1
\* when there is none or other is empty.
lastIndexOf(line, term, cs) ==
    LET hits == {i \in 0..Len(line) : MatchesAt(line, i, term, cs)}
    IN  IF term = <<>> \/ hits = {} THEN -1
        ELSE CHOOSE i \in hits : \A j \in hits : j <= i

\* String::substring (0, end)
substring0(line, end) == SubSeq(line, 1, Min(Max(end, 0), Len(line)))

RECURSIVE LineStart(_, _)
LineStart(ls, i) == IF i <= 0 THEN 0 ELSE Len(ls[i]) + LineStart(ls, i - 1)

TotalLength(ls) == LineStart(ls, Len(ls))

LengthWithoutNewLines(line) ==
    IF line # <<>> /\ line[Len(line)] = NL THEN Len(line) - 1 ELSE Len(line)

\* CodeDocument::getLine: the empty string for an index that is no line.
getLine(ls, lineIndex) ==
    IF lineIndex >= 0 /\ lineIndex < Len(ls) THEN ls[lineIndex + 1] ELSE <<>>

\* CodeDocument::Position (document, characterPos): the line holding the
\* offset (the last line for the end of the text) and the index in it.
PositionAt(ls, characterPos) ==
    IF ls = <<>> THEN [line |-> 0, index |-> 0]
    ELSE LET p == Min(Max(characterPos, 0), TotalLength(ls))
             n == CHOOSE i \in 0..(Len(ls) - 1) :
                      /\ LineStart(ls, i) <= p
                      /\ (p < LineStart(ls, i + 1) \/ i = Len(ls) - 1)
         IN  [line |-> n,
              index |-> Min(LengthWithoutNewLines(ls[n + 1]), p - LineStart(ls, n))]

\* CodeDocument::Position (document, line, indexInLine): its character offset.
OffsetOf(ls, lineNum, indexInLine) ==
    IF ls = <<>> THEN 0
    ELSE IF lineNum >= Len(ls)
         THEN LineStart(ls, Len(ls) - 1) + LengthWithoutNewLines(ls[Len(ls)])
         ELSE LET n == Max(0, lineNum)
                  w == LengthWithoutNewLines(ls[n + 1])
              IN  LineStart(ls, n) + (IF w > 0 THEN Min(Max(indexInLine, 0), w) ELSE 0)

\* Position::movedBy
movedBy(ls, offset, delta) ==
    LET q == PositionAt(ls, offset + delta)
    IN  LineStart(ls, q.line) + q.index

----------------------------------------------------------------------------
(* GenericCodeEditorComponent: findNext, the commands and the find panel.  *)

FindChars == {"a", "A", NL}
Terms == SeqsUpTo(FindChars, MaxTermLen)
\* The find field is a single-line text editor: no new-line can be typed.
TypedTerms == SeqsUpTo({"a", "A"}, MaxTermLen)

Text == codeDoc.text

\* CodeEditorComponent::getTextInRange
getTextInRange(t, a, b) == SubSeq(t, a + 1, b)

\* Mutant: the search starts at the start of the selection whatever the flag.
StartOffsetIgnoresSkip(highlightStart, highlightEnd, skipCurrentSelection) ==
    highlightStart

StartOffset(highlightStart, highlightEnd, skipCurrentSelection) ==
    IF skipCurrentSelection THEN highlightEnd ELSE highlightStart

\* Mutant: one line more than the document has is searched.
LinesToSearchOneMore(totalLines) == totalLines + 1

\* The initial value of the loop counter linesToSearch.
LinesToSearch(totalLines) == totalLines

\* Mutant: a backwards search looks at the whole line.
IndexInLineWholeLine(line, linePos, term, cs, forwards) ==
    IF forwards THEN indexOf(line, linePos, term, cs)
    ELSE lastIndexOf(line, term, cs)

\* The index of the match in the line read, -1 when there is none.
IndexInLine(line, linePos, term, cs, forwards) ==
    IF forwards THEN indexOf(line, linePos, term, cs)
    ELSE lastIndexOf(IF linePos >= 0 THEN substring0(line, linePos) ELSE line, term, cs)

\* The line to read next. A remainder by zero is undefined: it is recorded,
\* and the line is then any line index of the model.
AdvanceLine(lineNum, totalLines, forwards) ==
    IF forwards
    THEN [lineNum |-> IF totalLines = 0 THEN 0 ELSE (lineNum + 1) % totalLines,
          linePos |-> 0, modByZero |-> totalLines = 0]
    ELSE [lineNum |-> IF lineNum - 1 < 0 THEN totalLines - 1 ELSE lineNum - 1,
          linePos |-> -1, modByZero |-> FALSE]

\* The for loop of findNext: linesToSearch is the counter before its --.
RECURSIVE FindLoop(_, _, _, _, _, _, _, _, _)
FindLoop(ls, term, cs, forwards, lineNum, linePos, linesToSearch, read, mz) ==
    IF linesToSearch - 1 < 0
    THEN [found |-> FALSE, line |-> lineNum, index |-> -1, read |-> read, modByZero |-> mz]
    ELSE LET line == getLine(ls, lineNum)
             index == IndexInLine(line, linePos, term, cs, forwards)
             adv == AdvanceLine(lineNum, Len(ls), forwards)
         IN  IF index >= 0
             THEN [found |-> TRUE, line |-> lineNum, index |-> index,
                   read |-> Append(read, lineNum), modByZero |-> mz]
             ELSE FindLoop(ls, term, cs, forwards, adv.lineNum, adv.linePos,
                           linesToSearch - 1, Append(read, lineNum), mz \/ adv.modByZero)

\* findNext on the text t with the selection [a, b]: the new selection and
\* what the loop did.
findNext(t, a, b, term, cs, forwards, skipCurrentSelection) ==
    LET ls == Lines(t)
        startPos == PositionAt(ls, StartOffset(a, b, skipCurrentSelection))
        r == FindLoop(ls, term, cs, forwards, startPos.line, startPos.index,
                      LinesToSearch(Len(ls)), <<>>, FALSE)
        p == OffsetOf(ls, r.line, r.index)
    IN  [selStart |-> IF r.found THEN p ELSE a,
         selEnd |-> IF r.found THEN movedBy(ls, p, Len(term)) ELSE b,
         found |-> r.found, read |-> r.read, modByZero |-> r.modByZero]

ApplyFind(r) ==
    /\ selStart' = r.selStart
    /\ selEnd' = r.selEnd
    /\ found' = r.found
    /\ linesRead' = r.read
    /\ modByZero' = r.modByZero

NoFind ==
    /\ found' = FALSE
    /\ linesRead' = <<>>
    /\ modByZero' = FALSE

Dir(forwards) == IF forwards THEN "forwards" ELSE "backwards"
Skip(skipCurrentSelection) == IF skipCurrentSelection THEN "skip" ELSE "noSkip"

\* The user moves the caret or selects a region of the text.
SelectRegion(a, b) ==
    /\ a <= b
    /\ b <= Len(Text)
    /\ selStart' = a
    /\ selEnd' = b
    /\ NoFind
    /\ lastOp' = Op("select", "-", "-", TRUE)
    /\ UNCHANGED <<docVars, searchString, caseSensitive, findPanel, retVars>>

FindNext(forwards, skipCurrentSelection) ==
    /\ ApplyFind(findNext(Text, selStart, selEnd, searchString, caseSensitive,
                          forwards, skipCurrentSelection))
    /\ lastOp' = Op("findNext", Dir(forwards), Skip(skipCurrentSelection), TRUE)
    /\ UNCHANGED <<docVars, searchString, caseSensitive, findPanel, retVars>>

\* perform (CommandIDs::findNext)
FindNextCommand == FindNext(TRUE, TRUE)

\* perform (CommandIDs::findPrevious)
FindPreviousCommand == FindNext(FALSE, FALSE)

FindSelection ==
    LET selected == getTextInRange(Text, selStart, selEnd)
    IN  /\ IF selected # <<>>
           THEN /\ searchString' = selected
                /\ ApplyFind(findNext(Text, selStart, selEnd, selected, caseSensitive, TRUE, TRUE))
           ELSE /\ NoFind
                /\ UNCHANGED <<searchString, selVars>>
        /\ lastOp' = Op("findSelection", "forwards", "skip", selected # <<>>)
        /\ UNCHANGED <<docVars, caseSensitive, findPanel, retVars>>

\* FindPanel::FindPanel reads the stored settings into its widgets.
NewFindPanel == [open |-> TRUE, text |-> searchString, caseToggle |-> caseSensitive]

ShowFindPanel ==
    /\ findPanel' = IF ~findPanel.open THEN NewFindPanel ELSE findPanel
    /\ NoFind
    /\ lastOp' = Op("showFindPanel", "-", "-", TRUE)
    /\ UNCHANGED <<docVars, selVars, searchString, caseSensitive, retVars>>

HideFindPanel ==
    /\ findPanel' = NoPanel
    /\ NoFind
    /\ UNCHANGED <<docVars, selVars, searchString, caseSensitive, retVars>>

\* FindPanel::textEditorEscapeKeyPressed
EscapeInFindField ==
    /\ findPanel.open
    /\ HideFindPanel
    /\ lastOp' = Op("escapeInFindField", "-", "-", TRUE)

\* GenericCodeEditorComponent::handleEscapeKey
HandleEscapeKey ==
    /\ HideFindPanel
    /\ lastOp' = Op("handleEscapeKey", "-", "-", TRUE)

\* The user clicks the case toggle: FindPanel::buttonClicked.
ClickCaseButton ==
    /\ findPanel.open
    /\ findPanel' = [findPanel EXCEPT !.caseToggle = ~findPanel.caseToggle]
    /\ caseSensitive' = ~findPanel.caseToggle
    /\ NoFind
    /\ lastOp' = Op("buttonClicked", "-", "-", TRUE)
    /\ UNCHANGED <<docVars, selVars, searchString, retVars>>

\* The user changes the text of the find field: FindPanel::textEditorTextChanged.
TypeInFindField(newText) ==
    /\ findPanel.open
    /\ newText # findPanel.text
    /\ findPanel' = [findPanel EXCEPT !.text = newText]
    /\ searchString' = newText
    /\ ApplyFind(findNext(Text, selStart, selEnd, newText, caseSensitive, TRUE, FALSE))
    /\ lastOp' = Op("textEditorTextChanged", "forwards", "noSkip", TRUE)
    /\ UNCHANGED <<docVars, caseSensitive, retVars>>

\* An editor open on a loaded document whose text is t; the search settings
\* are whatever the settings store holds.
EditorOn(t) ==
    /\ disk = [f \in Files |-> IF f = OwnFile THEN t ELSE <<>>]
    /\ codeDoc = setSavePoint([NewCodeDocument EXCEPT !.text = t])
    /\ modDetector = Fingerprint(t)
    /\ lazyLoads = 1
    /\ searchString \in Terms
    /\ caseSensitive \in BOOLEAN
    /\ findPanel = NoPanel
    /\ found = FALSE
    /\ linesRead = <<>>
    /\ modByZero = FALSE
    /\ blockIndent = <<>>
    /\ lastLineIndent = <<>>
    /\ returns = 0
    /\ lastOp = Op("init", "-", "-", TRUE)

\* A new editor has its caret at the start of the text.
CaretAtStart == selStart = 0 /\ selEnd = 0

FindInit == \E t \in SeqsUpTo(FindChars, MaxDocLen) : EditorOn(t) /\ CaretAtStart

FindNextStep ==
    \/ \E a \in 0..MaxDocLen, b \in 0..MaxDocLen : SelectRegion(a, b)
    \/ \E forwards \in BOOLEAN, skipCurrentSelection \in BOOLEAN :
           FindNext(forwards, skipCurrentSelection)
    \/ FindSelection

FindSpec == FindInit /\ [][FindNextStep]_vars

PanelInit == \E t \in SeqsUpTo(FindChars, PanelDocLen) : EditorOn(t) /\ CaretAtStart

PanelNext ==
    \/ \E a \in 0..PanelDocLen, b \in 0..PanelDocLen : SelectRegion(a, b)
    \/ ShowFindPanel
    \/ \E newText \in TypedTerms : TypeInFindField(newText)
    \/ ClickCaseButton
    \/ EscapeInFindField
    \/ HandleEscapeKey
    \/ FindSelection
    \/ FindNextCommand
    \/ FindPreviousCommand

PanelSpec == PanelInit /\ [][PanelNext]_vars

----------------------------------------------------------------------------
(* CppCodeEditorComponent::handleReturnKey                                 *)

\* SourceCodeEditor::setEditor: editor->setTabSize (4, true), spaces for tabs.
TabSize == 4

Spaces(n) == [i \in 1..n |-> " "]

IsWhitespace(c) == c \in {" ", NL}

RECURSIVE trimStart(_)
trimStart(s) == IF s # <<>> /\ IsWhitespace(Head(s)) THEN trimStart(Tail(s)) ELSE s

RECURSIVE trimEnd(_)
trimEnd(s) ==
    IF s # <<>> /\ IsWhitespace(s[Len(s)]) THEN trimEnd(SubSeq(s, 1, Len(s) - 1)) ELSE s

trim(s) == trimEnd(trimStart(s))

startsWith(s, prefix) == Len(prefix) <= Len(s) /\ SubSeq(s, 1, Len(prefix)) = prefix

startsWithChar(s, c) == s # <<>> /\ Head(s) = c

endsWithChar(s, c) == s # <<>> /\ s[Len(s)] = c

IsNotNewLine(c) == c # NL

\* CodeHelpers::getLeadingWhitespace: the new-line characters are removed,
\* then the leading whitespace is taken.
getLeadingWhitespace(line) ==
    LET l == SelectSeq(line, IsNotNewLine)
    IN  SubSeq(l, 1, Len(l) - Len(trimStart(l)))

\* The results getIndentForCurrentBlock may give: runs of spaces.
Indents == {Spaces(n) : n \in 0..MaxIndent}

\* CodeDocument::insertText and deleteSection on the text.
insertAt(t, pos, u) == SubSeq(t, 1, pos) \o u \o SubSeq(t, pos + 1, Len(t))
deleteSection(t, a, b) == SubSeq(t, 1, a) \o SubSeq(t, b + 1, Len(t))

\* Mutant: the previous line's indent is inserted whatever the line starts with.
IndentToInsertAlwaysLastLine(remainderOfBrokenLine, blockInd, lastLineInd) == lastLineInd

\* The indent inserted at the caret.
IndentToInsert(remainderOfBrokenLine, blockInd, lastLineInd) ==
    IF startsWithChar(trimStart(remainderOfBrokenLine), "}") THEN blockInd ELSE lastLineInd

\* Mutant: the closing bracket at the end of the line is not asked for.
NeedsExtraTabAnyEnd(trimmedPreviousLine) ==
    \/ startsWith(trimmedPreviousLine, <<"i", "f", " ">>)
    \/ startsWith(trimmedPreviousLine, <<"i", "f", "(">>)
    \/ startsWith(trimmedPreviousLine, <<"f", "o", "r", " ">>)
    \/ startsWith(trimmedPreviousLine, <<"f", "o", "r", "(">>)
    \/ startsWith(trimmedPreviousLine, <<"w", "h", "i", "l", "e", "(">>)
    \/ startsWith(trimmedPreviousLine, <<"w", "h", "i", "l", "e", " ">>)

\* Whether insertTabAtCaret is called.
NeedsExtraTab(trimmedPreviousLine) ==
    /\ \/ startsWith(trimmedPreviousLine, <<"i", "f", " ">>)
       \/ startsWith(trimmedPreviousLine, <<"i", "f", "(">>)
       \/ startsWith(trimmedPreviousLine, <<"f", "o", "r", " ">>)
       \/ startsWith(trimmedPreviousLine, <<"f", "o", "r", "(">>)
       \/ startsWith(trimmedPreviousLine, <<"w", "h", "i", "l", "e", "(">>)
       \/ startsWith(trimmedPreviousLine, <<"w", "h", "i", "l", "e", " ">>)
    /\ endsWithChar(trimmedPreviousLine, ")")

\* CodeEditorComponent::insertTabAtCaret with spaces for tabs: spaces up to
\* the next tab stop. (The caret is never on whitespace of its own line here.)
TabAt(caretCol) == Spaces(TabSize - (caretCol % TabSize))

\* handleReturnKey on the text t with the selection [a, b], blockInd and
\* lastLineInd being what getIndentForCurrentBlock returns for the new line.
handleReturnKey(t, a, b, blockInd, lastLineInd) ==
    LET \* GenericCodeEditorComponent::handleReturnKey: the selection is
        \* replaced by a new-line, the caret put after it.
        t1 == insertAt(deleteSection(t, a, b), a, <<NL>>)
        pos == a + 1
        p == PositionAt(Lines(t1), pos)
        remainderOfBrokenLine == getLine(Lines(t1), p.line)
        numLeadingWSChars == Len(getLeadingWhitespace(remainderOfBrokenLine))
        t2 == IF numLeadingWSChars > 0
              THEN deleteSection(t1, pos, movedBy(Lines(t1), pos, numLeadingWSChars))
              ELSE t1
        indent == IndentToInsert(remainderOfBrokenLine, blockInd, lastLineInd)
        t3 == insertAt(t2, pos, indent)
        caret3 == pos + Len(indent)
        previousLine == getLine(Lines(t3), p.line - 1)
        trimmedPreviousLine == trim(previousLine)
        tab == IF NeedsExtraTab(trimmedPreviousLine)
               THEN TabAt(PositionAt(Lines(t3), caret3).index)
               ELSE <<>>
    IN  [text |-> insertAt(t3, caret3, tab),
         caret |-> caret3 + Len(tab),
         actions |-> 1 + (IF b > a THEN 1 ELSE 0) + (IF numLeadingWSChars > 0 THEN 1 ELSE 0)
                       + (IF indent # <<>> THEN 1 ELSE 0) + (IF tab # <<>> THEN 1 ELSE 0)]

HandleReturnKey(blockInd, lastLineInd) ==
    /\ returns < MaxReturns
    /\ LET r == handleReturnKey(Text, selStart, selEnd, blockInd, lastLineInd)
       IN  /\ codeDoc' = Perform(codeDoc, r.text, r.actions)
           /\ selStart' = r.caret
           /\ selEnd' = r.caret
    /\ blockIndent' = blockInd
    /\ lastLineIndent' = lastLineInd
    /\ returns' = returns + 1
    /\ lastOp' = Op("handleReturnKey", "-", "-", TRUE)
    /\ UNCHANGED <<disk, modDetector, lazyLoads, findVars>>

\* The lines the documents of the indentation model are made of: what is
\* before the caret's line break, and what may follow it.
HeadSamples ==
    { <<"i", "f", " ", "(", "x", ")">>,
      <<"i", "f", "(", "x", ")">>,
      <<"f", "o", "r", " ", "x", ")">>,
      <<"f", "o", "r", "(", ")">>,
      <<"w", "h", "i", "l", "e", " ", ")">>,
      <<"w", "h", "i", "l", "e", "(", ")">>,
      <<"i", "f", " ", "x">>,
      <<"i", "f", "x", ")">>,
      <<" ", "i", "f", "(", ")", " ">>,
      <<"w", "h", "i", "l", "e">>,
      <<"x", ")">>,
      <<"{">>,
      <<>> }

TailSamples ==
    { <<>>, <<"}">>, <<" ", "}">>, <<"x">>, <<" ", " ", "x">>, <<" ">>, <<"x", "}">> }

ReturnDocs == {h \o r : h \in HeadSamples, r \in TailSamples}

\* Return is pressed with any selection of any of the documents.
ReturnInit ==
    \E t \in ReturnDocs :
        /\ EditorOn(t)
        /\ searchString = <<>>
        /\ caseSensitive = FALSE
        /\ selEnd \in 0..Len(t)
        /\ selStart \in 0..selEnd

ReturnNext ==
    \E blockInd \in Indents, lastLineInd \in Indents : HandleReturnKey(blockInd, lastLineInd)

ReturnSpec == ReturnInit /\ [][ReturnNext]_vars

----------------------------------------------------------------------------
(* Properties of SourceCodeDocument, checked under Spec.                   *)

SavePointOf(cd) == <<cd.currentActionIndex, cd.indexOfSavedState>>

\* C1: whenever save() has returned true or reloadFromFile() has completed,
\* the buffer text equals the content of the document's file, the buffer is
\* at its save point (the document does not need saving) and the fingerprint
\* is that of the file.
C1_BufferMatchesFile ==
    ((lastOp.op = "save" /\ lastOp.result) \/ lastOp.op = "reloadFromFile")
        => /\ codeDoc.allocated
           /\ codeDoc.text = disk[OwnFile]
           /\ ~needsSaving(Self)
           /\ modDetector = Fingerprint(disk[OwnFile])

\* C1 witness: a successful save of a non-empty buffer that had been edited.
C1_Witness ==
    /\ lastOp.op = "save"
    /\ lastOp.result
    /\ codeDoc.undo # <<>>
    /\ codeDoc.text # <<>>

\* C2 as stated: a save() whose write fails returns false and leaves the
\* buffer text, the save point and the fingerprint as they were.
C2_FailedSaveChangesNothing ==
    [][(lastOp'.op = "save" /\ lastOp'.outcome = "failed")
          => /\ ~lastOp'.result
             /\ codeDoc'.text = codeDoc.text
             /\ SavePointOf(codeDoc') = SavePointOf(codeDoc)
             /\ modDetector' = modDetector
             /\ (needsSaving(Self) => needsSaving(Self'))]_vars

\* C2 amended: a save() whose write fails returns false; if the buffer was
\* already loaded, the buffer, its save point and the fingerprint are left
\* as they were; if it was not, the buffer is first loaded from the file (at
\* its save point, the fingerprint refreshed). A document that needed saving
\* still needs saving.
C2_FailedSaveKeepsLoadedBuffer ==
    [][(lastOp'.op = "save" /\ lastOp'.outcome = "failed")
          => /\ ~lastOp'.result
             /\ codeDoc.allocated => (codeDoc' = codeDoc /\ modDetector' = modDetector)
             /\ ~codeDoc.allocated =>
                    /\ codeDoc'.allocated
                    /\ codeDoc'.text = disk[OwnFile]
                    /\ ~needsSaving(Self')
                    /\ modDetector' = Fingerprint(disk[OwnFile])
             /\ (needsSaving(Self) => needsSaving(Self'))]_vars

\* C2 witness: a failed save of a document with unsaved edits.
C2_Witness ==
    /\ lastOp.op = "save"
    /\ ~lastOp.result
    /\ needsSaving(Self)
    /\ codeDoc.text # disk[OwnFile]

\* C7 as stated: saveAs() returns false only after a failed write, a
\* cancelled chooser returns true and writes nothing, and in every outcome
\* the document's own file, the buffer text, the save point and the
\* fingerprint are left as they were.
C7_SaveAsChangesNothing ==
    [][lastOp'.op = "saveAs"
          => /\ ~lastOp'.result => lastOp'.outcome = "failed"
             /\ lastOp'.choice = "cancel" => (lastOp'.result /\ disk' = disk)
             /\ disk'[OwnFile] = disk[OwnFile]
             /\ codeDoc'.text = codeDoc.text
             /\ SavePointOf(codeDoc') = SavePointOf(codeDoc)
             /\ modDetector' = modDetector
             /\ (needsSaving(Self) => needsSaving(Self'))]_vars

\* C7 amended: saveAs() returns false only after a failed write; a cancelled
\* chooser returns true and changes nothing; once the buffer is loaded,
\* saveAs() leaves the buffer, its save point and the fingerprint as they
\* were (an unloaded buffer is first loaded from the file); the document's own
\* file is left as it was unless it is the file chosen, which a successful
\* write makes equal to the buffer. A document that needed saving still does.
C7_SaveAsFrame ==
    [][lastOp'.op = "saveAs"
          => /\ ~lastOp'.result => lastOp'.outcome = "failed"
             /\ lastOp'.choice = "cancel" => (lastOp'.result /\ UNCHANGED docVars)
             /\ codeDoc.allocated => (codeDoc' = codeDoc /\ modDetector' = modDetector)
             /\ (~codeDoc.allocated /\ lastOp'.choice # "cancel") =>
                    /\ codeDoc'.allocated
                    /\ codeDoc'.text = disk[OwnFile]
                    /\ ~needsSaving(Self')
                    /\ modDetector' = Fingerprint(disk[OwnFile])
             /\ lastOp'.choice # OwnFile => disk'[OwnFile] = disk[OwnFile]
             /\ (lastOp'.choice # "cancel" /\ lastOp'.outcome = "ok") =>
                    disk'[lastOp'.choice] = codeDoc'.text
             /\ (needsSaving(Self) => needsSaving(Self'))]_vars

\* C7 witness: a successful saveAs to another file of a document with unsaved
\* edits, which still needs saving.
C7_Witness ==
    /\ lastOp.op = "saveAs"
    /\ lastOp.result
    /\ lastOp.choice = OtherFile
    /\ needsSaving(Self)
    /\ disk[OtherFile] = codeDoc.text
    /\ disk[OwnFile] # codeDoc.text

\* C8: the buffer is loaded by getCodeDocument() at most once, when there is
\* no buffer yet, and is then the file's text, at its save point, with an
\* empty undo history; a later getCodeDocument() or createEditor() leaves the
\* buffer as it is; the buffer text of a loaded document changes only by an
\* edit, an undo or reloadFromFile().
C8_LoadedOnce ==
    /\ [](lazyLoads <= 1 /\ (codeDoc.allocated <=> lazyLoads = 1))
    /\ [][/\ lazyLoads' # lazyLoads =>
                /\ ~codeDoc.allocated
                /\ codeDoc'.text = disk[OwnFile]
                /\ ~needsSaving(Self')
                /\ codeDoc'.undo = <<>>
          /\ (codeDoc.allocated /\ lastOp'.op \in {"getCodeDocument", "createEditor"})
                => codeDoc' = codeDoc
          /\ (codeDoc.allocated /\ codeDoc'.text # codeDoc.text)
                => lastOp'.op \in {"edit", "undo", "reloadFromFile"}]_vars

\* C8 witness: createEditor() called on a loaded document with unsaved edits,
\* which are still there.
C8_Witness ==
    /\ lazyLoads = 1
    /\ lastOp.op = "createEditor"
    /\ needsSaving(Self)
    /\ codeDoc.text # disk[OwnFile]

----------------------------------------------------------------------------
(* Properties of the search, checked under FindSpec and PanelSpec.         *)

\* An occurrence of term at offset m (from 0) of the text t: the characters
\* match under the case setting and lie in one line, a line including the
\* new-line that ends it. The empty term occurs nowhere.
OccursAt(t, m, term, cs) ==
    /\ term # <<>>
    /\ m >= 0
    /\ m + Len(term) <= Len(t)
    /\ \A k \in 1..Len(term) : EqChar(t[m + k], term[k], cs)
    /\ \A k \in 1..(Len(term) - 1) : t[m + k] # NL

Occurrences(t, term, cs) == {m \in 0..Len(t) : OccursAt(t, m, term, cs)}

Least(S) == CHOOSE x \in S : \A y \in S : x <= y
Greatest(S) == CHOOSE x \in S : \A y \in S : y <= x

IsFindStep(forwards, skipCurrentSelection) ==
    /\ lastOp'.op = "findNext"
    /\ lastOp'.choice = Dir(forwards)
    /\ lastOp'.outcome = Skip(skipCurrentSelection)

\* C3: Find Next, findNext (true, true): when an occurrence of the search
\* term starts at or after the end of the selection, the selection becomes
\* the earliest such occurrence, from its start over the length of the term.
C3_FindNextSelectsNextOccurrence ==
    [][LET after == {m \in Occurrences(Text, searchString, caseSensitive) : m >= selEnd}
       IN  (IsFindStep(TRUE, TRUE) /\ after # {})
              => /\ selStart' = Least(after)
                 /\ selEnd' = Least(after) + Len(searchString)]_vars

\* C3 witness: Find Next has selected an occurrence on a later line than the
\* first, with an earlier occurrence before it.
C3_Witness ==
    /\ lastOp.op = "findNext"
    /\ lastOp.choice = "forwards"
    /\ lastOp.outcome = "skip"
    /\ found
    /\ selStart \in Occurrences(Text, searchString, caseSensitive)
    /\ selEnd = selStart + Len(searchString)
    /\ \E m \in Occurrences(Text, searchString, caseSensitive) : m < selStart
    /\ PositionAt(Lines(Text), selStart).line > 0

\* C4: Find Previous, findNext (false, false): when an occurrence of the
\* search term ends at or before the start of the selection, the selection
\* becomes the latest such occurrence.
C4_FindPreviousSelectsPreviousOccurrence ==
    [][LET before == {m \in Occurrences(Text, searchString, caseSensitive) :
                          m + Len(searchString) <= selStart}
       IN  (IsFindStep(FALSE, FALSE) /\ before # {})
              => /\ selStart' = Greatest(before)
                 /\ selEnd' = Greatest(before) + Len(searchString)]_vars

\* C4 witness: Find Previous has selected an occurrence that has a later
\* occurrence after it and an earlier one before it.
C4_Witness ==
    /\ lastOp.op = "findNext"
    /\ lastOp.choice = "backwards"
    /\ lastOp.outcome = "noSkip"
    /\ found
    /\ selStart \in Occurrences(Text, searchString, caseSensitive)
    /\ selEnd = selStart + Len(searchString)
    /\ \E m \in Occurrences(Text, searchString, caseSensitive) : m > selStart
    /\ \E m \in Occurrences(Text, searchString, caseSensitive) : m < selStart

\* Whether the selected region is an occurrence of the search term.
SelectionMatches ==
    /\ selEnd - selStart = Len(searchString)
    /\ OccursAt(Text, selStart, searchString, caseSensitive)

\* C5: whenever the find panel is open, its find field shows the stored
\* search term and its case toggle the stored case-sensitivity flag.
C5_PanelShowsStoredTerm ==
    findPanel.open => (findPanel.text = searchString /\ findPanel.caseToggle = caseSensitive)

\* C9: when the non-empty search term occurs within some line of the
\* document, every findNext ends with a selected region that matches it.
C9_WrapAroundFinds ==
    (lastOp.op = "findNext" /\ Occurrences(Text, searchString, caseSensitive) # {})
        => SelectionMatches

\* C10: findNext reads at most as many lines as the document has, each line
\* at most once, every index a line of the document; a document of no lines
\* has none read; no remainder by zero is taken.
C10_ReadsEachLineAtMostOnce ==
    /\ Len(linesRead) <= Len(Lines(Text))
    /\ \A i \in 1..Len(linesRead) : linesRead[i] >= 0 /\ linesRead[i] < Len(Lines(Text))
    /\ \A i \in 1..Len(linesRead), j \in 1..Len(linesRead) : linesRead[i] = linesRead[j] => i = j
    /\ ~modByZero

\* C10 witness: a search through a document of several lines that read every
\* line and found nothing.
C10_Witness ==
    /\ lastOp.op = "findNext"
    /\ ~found
    /\ Len(Lines(Text)) >= 2
    /\ Len(linesRead) = Len(Lines(Text))

----------------------------------------------------------------------------
(* Property of handleReturnKey, checked under ReturnSpec.                  *)

\* The offset at which the line holding offset a starts, and the offset at
\* which the line holding offset b ends (before its new-line).
StartOfLineAt(t, a) == Greatest({k \in 0..a : k = 0 \/ t[k] = NL})
EndOfLineAt(t, b) == Least({k \in b..Len(t) : k = Len(t) \/ t[k + 1] = NL})

RECURSIVE StripSpaces(_)
StripSpaces(s) == IF s # <<>> /\ Head(s) = " " THEN StripSpaces(Tail(s)) ELSE s

\* The text Return leaves on the new line: the carried text without its
\* leading whitespace, after the block indent when it begins with a closing
\* brace and the previous line's indent otherwise, and after one tab more
\* exactly when the previous line is an if, for or while ending in a bracket.
ExpectedNewLine(before, carried, blockInd, lastLineInd) ==
    LET rest == StripSpaces(carried)
        indent == IF rest # <<>> /\ rest[1] = "}" THEN blockInd ELSE lastLineInd
        prev == trim(before)
        keyword == \E w \in {<<"i", "f">>, <<"f", "o", "r">>, <<"w", "h", "i", "l", "e">>} :
                       \E c \in {" ", "("} : startsWith(prev, Append(w, c))
        tab == IF keyword /\ prev[Len(prev)] = ")"
               THEN Spaces(TabSize - (Len(indent) % TabSize))
               ELSE <<>>
    IN  [indent |-> indent \o tab, rest |-> rest]

\* C6: Return breaks the line at the selection; the new line holds the
\* carried text with its leading whitespace replaced by the indent, the
\* caret after the indent.
C6_ReturnIndentsNewLine ==
    [][lastOp'.op = "handleReturnKey" =>
          LET s == StartOfLineAt(Text, selStart)
              e == EndOfLineAt(Text, selEnd)
              x == ExpectedNewLine(SubSeq(Text, s + 1, selStart), SubSeq(Text, selEnd + 1, e),
                                   blockIndent', lastLineIndent')
          IN  /\ Text' = SubSeq(Text, 1, selStart) \o <<NL>> \o x.indent \o x.rest
                             \o SubSeq(Text, e + 1, Len(Text))
              /\ selStart' = selStart + 1 + Len(x.indent)
              /\ selEnd' = selStart']_vars

\* C6 witness: Return pressed after an if line, before a closing brace that
\* had whitespace in front of it: the whitespace is gone and the new line is
\* the block indent, a tab and the brace.
C6_Witness ==
    /\ lastOp.op = "handleReturnKey"
    /\ blockIndent # lastLineIndent
    /\ Len(blockIndent) > 0
    /\ selStart > TabSize
    /\ selStart < Len(Text)
    /\ Text[selStart + 1] = "}"
    /\ SubSeq(Text, selStart - TabSize + 1, selStart) = Spaces(TabSize)
    /\ codeDoc.undo # <<>>
    /\ LET before == codeDoc.undo[1].text
       IN  /\ Len(before) > Len(Text) - 1 - TabSize
           /\ Len(before) >= 2
           /\ SubSeq(before, Len(before) - 1, Len(before)) = <<" ", "}">>

====
